---- MODULE Spec2Model ----
(***************************************************************************)
(* sumi: a pseudo-shader playground.  The model covers                     *)
(*   - src/public/types/HLSL.ts : the colour algebra (Scalar, Vector2,     *)
(*     Vector3, their arithmetic, the channel getters, render());          *)
(*   - src/src/utils/Logger.ts  : the per-pass diagnostic log;             *)
(*   - src/src/components/Canvas.tsx : the compile-then-rasterize effect.  *)
(*                                                                         *)
(* Two specifications share the variables:                                 *)
(*   Spec     the render passes of the Canvas effect, step by step;        *)
(*   AlgSpec  the arithmetic and the blend operations of the colour        *)
(*            algebra applied to operands drawn from bounded sets.         *)
(***************************************************************************)
EXTENDS Integers, Sequences, FiniteSets, TLC

(***************************************************************************)
(* Bounds of the model.                                                    *)
(***************************************************************************)
\* Side of the raster in the model (the program rasterizes 512 x 512).
MaxRenderSize == 2
\* Number of render passes a behaviour may start.
MaxPasses == 2
\* Operand components of Scalar and Vector2 are the integers -1 .. MaxComp.
MaxComp == 4
\* Operand components of Vector3 are the integers 0 .. MaxComp3.
MaxComp3 == 1

(***************************************************************************)
(* State.                                                                  *)
(***************************************************************************)
VARIABLES
    pc,          \* position of the effect: "Idle", "Rendering", "Finally"
    x, y,        \* the loop variables of the pixel loop
    canvas,      \* the image: pixel -> colour
    fillStyle,   \* the 2d context's fill style; it outlives a pass
    logs,        \* Logger.logs of the current pass
    output,      \* App's `output` state, set through props.setOutput
    code,        \* props.code: the source text the current pass is given
    program,     \* renderFunction of the current pass, "none" without one
    pass,        \* number of passes started
    path,        \* history: the branch the current (or last) pass took
    trace,       \* history: the steps of the current (or last) pass, in order
    calls,       \* history: pixel -> the texCoords the program was invoked with
    fills,       \* history: pixel -> number of fillRect calls on it
    logged,      \* history: the (level, text) of every log call of the pass
    lastOutcome, \* history: how the latest pixel evaluation ended
    writes,      \* history: the (style, colour) of every write to WatchPixel
    alg          \* the latest call of the colour algebra (AlgSpec)

vars == <<pc, x, y, canvas, fillStyle, logs, output, code, program, pass, path,
          trace, calls, fills, logged, lastOutcome, writes, alg>>

rasterVars == <<pc, x, y, canvas, fillStyle, logs, output, code, program, pass,
                path,
                trace, calls, fills, logged, lastOutcome, writes>>

(***************************************************************************)
(* JavaScript numbers.  A number is a record: a finite value is the        *)
(* normalised fraction n/d (d > 0, gcd 1), the other kinds are NaN, the    *)
(* two infinities (n is the sign) and the value `undefined` read from a    *)
(* missing array slot.  Fractions are exact: rounding of doubles and the   *)
(* sign of zero are not modelled.                                          *)
(***************************************************************************)
Abs(n) == IF n < 0 THEN -n ELSE n

Sign(n) == IF n < 0 THEN -1 ELSE IF n > 0 THEN 1 ELSE 0

RECURSIVE GCD(_, _)
GCD(a, b) == IF b = 0 THEN a ELSE GCD(b, a % b)

Fin(n, d) ==
    LET g == GCD(Abs(n), Abs(d))
        s == IF d < 0 THEN -1 ELSE 1
    IN  [k |-> "fin", n |-> (s * n) \div g, d |-> (s * d) \div g]

Int2Num(n) == [k |-> "fin", n |-> n, d |-> 1]

NaN == [k |-> "NaN", n |-> 0, d |-> 1]

Infinity(s) == [k |-> "inf", n |-> s, d |-> 1]

Undefined == [k |-> "undefined", n |-> 0, d |-> 1]

\* ToNumber: `undefined` converts to NaN when it meets an arithmetic operator.
ToNumber(v) == IF v.k = "undefined" THEN NaN ELSE v

IsFinite(v) == v.k = "fin"

\* a + b
NumAdd(a0, b0) ==
    LET a == ToNumber(a0)
        b == ToNumber(b0)
    IN  CASE a.k = "NaN" \/ b.k = "NaN" -> NaN
          [] a.k = "inf" /\ b.k = "inf" -> IF a.n = b.n THEN a ELSE NaN
          [] a.k = "inf" -> a
          [] b.k = "inf" -> b
          [] OTHER -> Fin(a.n * b.d + b.n * a.d, a.d * b.d)

\* a - b
NumSub(a0, b0) ==
    LET b == ToNumber(b0)
        nb == CASE b.k = "fin" -> Fin(-b.n, b.d)
                [] b.k = "inf" -> Infinity(-b.n)
                [] OTHER -> NaN
    IN  NumAdd(a0, nb)

\* a * b
NumMul(a0, b0) ==
    LET a == ToNumber(a0)
        b == ToNumber(b0)
    IN  CASE a.k = "NaN" \/ b.k = "NaN" -> NaN
          [] a.k = "inf" \/ b.k = "inf" ->
                IF Sign(a.n) * Sign(b.n) = 0 THEN NaN
                ELSE Infinity(Sign(a.n) * Sign(b.n))
          [] OTHER -> Fin(a.n * b.n, a.d * b.d)

\* a / b: x/0 is an infinity, 0/0 is NaN.
NumDiv(a0, b0) ==
    LET a == ToNumber(a0)
        b == ToNumber(b0)
    IN  CASE a.k = "NaN" \/ b.k = "NaN" -> NaN
          [] a.k = "inf" /\ b.k = "inf" -> NaN
          [] a.k = "inf" -> Infinity(IF b.n < 0 THEN -a.n ELSE a.n)
          [] b.k = "inf" -> Int2Num(0)
          [] b.n = 0 -> IF a.n = 0 THEN NaN ELSE Infinity(Sign(a.n))
          [] OTHER -> Fin(a.n * b.d, a.d * b.n)

\* a < b on numbers that are not NaN.
NumLess(a, b) ==
    CASE a.k = "inf" /\ b.k = "inf" -> a.n < b.n
      [] a.k = "inf" -> a.n < 0
      [] b.k = "inf" -> b.n > 0
      [] OTHER -> a.n * b.d < b.n * a.d

\* Math.max(a, b) and Math.min(a, b): NaN as soon as one argument is NaN.
MathMax(a0, b0) ==
    LET a == ToNumber(a0)
        b == ToNumber(b0)
    IN  IF a.k = "NaN" \/ b.k = "NaN" THEN NaN
        ELSE IF NumLess(a, b) THEN b ELSE a

MathMin(a0, b0) ==
    LET a == ToNumber(a0)
        b == ToNumber(b0)
    IN  IF a.k = "NaN" \/ b.k = "NaN" THEN NaN
        ELSE IF NumLess(b, a) THEN b ELSE a

\* Math.clamp, number path.
MathClampNumber(v, min, max) == MathMin(MathMax(v, min), max)

(***************************************************************************)
(* Renderable values: the class (type) and the `values` array.             *)
(***************************************************************************)
Types == {"Scalar", "Vector2", "Vector3"}

dimensionsOf(type) ==
    CASE type = "Scalar" -> 1
      [] type = "Vector2" -> 2
      [] type = "Vector3" -> 3

dimensions(v) == dimensionsOf(v.type)

\* new Type(...args): the constructor stores one slot per declared
\* parameter; a parameter without an argument is undefined, surplus
\* arguments are dropped.
Construct(type, args) ==
    [type |-> type,
     values |-> [i \in 1 .. dimensionsOf(type) |->
                    IF i <= Len(args) THEN args[i] ELSE Undefined]]

Scalar(s) == Construct("Scalar", <<s>>)

Vector2(r, g) == Construct("Vector2", <<r, g>>)

Vector3(r, g, b) == Construct("Vector3", <<r, g, b>>)

\* defaultValueFor(index), index counted from 0 as in the source.
defaultValueFor(index) ==
    CASE index \in {0, 1, 2} -> Int2Num(0)
      [] index = 3 -> Int2Num(1)

red(v) == v.values[1]

\* A Scalar whose green falls back to the channel default.
greenDefaulted(v) ==
    CASE v.type = "Scalar" -> defaultValueFor(1)
      [] v.type = "Vector2" -> v.values[2]
      [] v.type = "Vector3" -> v.values[2]

green(v) ==
    CASE v.type = "Scalar" -> v.values[1]
      [] v.type = "Vector2" -> v.values[2]
      [] v.type = "Vector3" -> v.values[2]

blue(v) ==
    CASE v.type = "Scalar" -> v.values[1]
      [] v.type = "Vector2" -> defaultValueFor(2)
      [] v.type = "Vector3" -> v.values[3]

alpha(v) == defaultValueFor(3)

(***************************************************************************)
(* Outcome of a call: a returned value or a thrown Error.                  *)
(***************************************************************************)
NoValue == [type |-> "none", values |-> <<>>]

Return(v) == [ok |-> TRUE, val |-> v, err |-> ""]

Throw(msg) == [ok |-> FALSE, val |-> NoValue, err |-> msg]

(***************************************************************************)
(* Scalar arithmetic: the receiver's single value is combined with every   *)
(* slot of `other`, and the result is built with other's constructor.      *)
(***************************************************************************)
ScalarMultiply(this, other) ==
    Return(Construct(other.type,
        [i \in 1 .. dimensions(other) |-> NumMul(this.values[1], other.values[i])]))

ScalarAdd(this, other) ==
    Return(Construct(other.type,
        [i \in 1 .. dimensions(other) |-> NumAdd(this.values[1], other.values[i])]))

ScalarSubtract(this, other) ==
    Return(Construct(other.type,
        [i \in 1 .. dimensions(other) |-> NumSub(this.values[1], other.values[i])]))

\* Scalar.divide: a slot of `other` that is === 0 gives 0.
ScalarDivide(this, other) ==
    Return(Construct(other.type,
        [i \in 1 .. dimensions(other) |->
            IF other.values[i] = Int2Num(0) THEN Int2Num(0)
            ELSE NumDiv(this.values[1], other.values[i])]))

(***************************************************************************)
(* Vector2 arithmetic: switch (other.dimensions) { case 1: case 2: ... }   *)
(* on the channel getters, so a Scalar operand is read through its         *)
(* grayscale green.                                                        *)
(***************************************************************************)
Vector2Multiply(this, other) ==
    IF dimensions(other) \in {1, 2}
    THEN Return(Vector2(NumMul(red(this), red(other)),
                        NumMul(green(this), green(other))))
    ELSE Throw("Invalid arguments for Vector2.multiply")

Vector2Add(this, other) ==
    IF dimensions(other) \in {1, 2}
    THEN Return(Vector2(NumAdd(red(this), red(other)),
                        NumAdd(green(this), green(other))))
    ELSE Throw("Invalid arguments for Vector2.add")

Vector2Subtract(this, other) ==
    IF dimensions(other) \in {1, 2}
    THEN Return(Vector2(NumSub(red(this), red(other)),
                        NumSub(green(this), green(other))))
    ELSE Throw("Invalid arguments for Vector2.subtract")

Vector2Divide(this, other) ==
    IF dimensions(other) \in {1, 2}
    THEN Return(Vector2(NumDiv(red(this), red(other)),
                        NumDiv(green(this), green(other))))
    ELSE Throw("Invalid arguments for Vector2.divide")

(***************************************************************************)
(* Vector3 arithmetic: switch (other.dimensions) { case 1: case 3: ... }.  *)
(***************************************************************************)
Vector3Multiply(this, other) ==
    IF dimensions(other) \in {1, 3}
    THEN Return(Vector3(NumMul(red(this), red(other)),
                        NumMul(green(this), green(other)),
                        NumMul(blue(this), blue(other))))
    ELSE Throw("Invalid arguments for Vector3.multiply")

\* The slip the switch of Vector3.add excludes: a `case 2:` label too.
Vector3AddAnyDimension(this, other) ==
    Return(Vector3(NumAdd(red(this), red(other)),
                   NumAdd(green(this), green(other)),
                   NumAdd(blue(this), blue(other))))

Vector3Add(this, other) ==
    IF dimensions(other) \in {1, 3}
    THEN Return(Vector3(NumAdd(red(this), red(other)),
                        NumAdd(green(this), green(other)),
                        NumAdd(blue(this), blue(other))))
    ELSE Throw("Invalid arguments for Vector3.add")

Vector3Subtract(this, other) ==
    IF dimensions(other) \in {1, 3}
    THEN Return(Vector3(NumSub(red(this), red(other)),
                        NumSub(green(this), green(other)),
                        NumSub(blue(this), blue(other))))
    ELSE Throw("Invalid arguments for Vector3.subtract")

Vector3Divide(this, other) ==
    IF dimensions(other) \in {1, 3}
    THEN Return(Vector3(NumDiv(red(this), red(other)),
                        NumDiv(green(this), green(other)),
                        NumDiv(blue(this), blue(other))))
    ELSE Throw("Invalid arguments for Vector3.divide")

\* this.<op>(other): the method of the receiver's class.
Call(op, this, other) ==
    CASE this.type = "Scalar" /\ op = "multiply" -> ScalarMultiply(this, other)
      [] this.type = "Scalar" /\ op = "add" -> ScalarAdd(this, other)
      [] this.type = "Scalar" /\ op = "subtract" -> ScalarSubtract(this, other)
      [] this.type = "Scalar" /\ op = "divide" -> ScalarDivide(this, other)
      [] this.type = "Vector2" /\ op = "multiply" -> Vector2Multiply(this, other)
      [] this.type = "Vector2" /\ op = "add" -> Vector2Add(this, other)
      [] this.type = "Vector2" /\ op = "subtract" -> Vector2Subtract(this, other)
      [] this.type = "Vector2" /\ op = "divide" -> Vector2Divide(this, other)
      [] this.type = "Vector3" /\ op = "multiply" -> Vector3Multiply(this, other)
      [] this.type = "Vector3" /\ op = "add" -> Vector3Add(this, other)
      [] this.type = "Vector3" /\ op = "subtract" -> Vector3Subtract(this, other)
      [] this.type = "Vector3" /\ op = "divide" -> Vector3Divide(this, other)

(***************************************************************************)
(* Renderable.render(): each of red, green, blue clamped to [0,1] and      *)
(* scaled by 255, formatted as `rgb(r, g, b)`.  The device colour string   *)
(* is the record of its form and its three numbers; no rounding is         *)
(* applied, as in the source.                                              *)
(***************************************************************************)
render(v) ==
    [form |-> "rgb",
     r |-> NumMul(MathClampNumber(red(v), Int2Num(0), Int2Num(1)), Int2Num(255)),
     g |-> NumMul(MathClampNumber(green(v), Int2Num(0), Int2Num(1)), Int2Num(255)),
     b |-> NumMul(MathClampNumber(blue(v), Int2Num(0), Int2Num(1)), Int2Num(255))]

(***************************************************************************)
(* The generic blend operations on Math.  An argument is a plain number    *)
(* or a Renderable; a plain number is the record of type "number" around   *)
(* its value.  typeof a === "number" selects the number path, "dimensions" *)
(* in a the Renderable path.                                               *)
(***************************************************************************)
Number(n) == [type |-> "number", values |-> <<n>>]

IsNumber(v) == v.type = "number"

IsRenderable(v) == v.type \in Types

\* v.values[i] ?? defaultValueFor(i), i counted from 0.
ValueOrDefault(v, i) ==
    IF i + 1 \in DOMAIN v.values /\ v.values[i + 1].k # "undefined"
    THEN v.values[i + 1]
    ELSE defaultValueFor(i)

\* v.values[i], i counted from 0: undefined past the end of the array.
ValueAt(v, i) ==
    IF i + 1 \in DOMAIN v.values THEN v.values[i + 1] ELSE Undefined

\* An interpolation with the roles of a and b exchanged.
MathLerpNumberSwapped(a, b, t) == NumAdd(b, NumMul(NumSub(a, b), t))

\* Math.lerp, number path: a + (b - a) * t
MathLerpNumber(a, b, t) == NumAdd(a, NumMul(NumSub(b, a), t))

\* Math.lerp: the result is built with the constructor of the wider
\* operand from an array of a.dimensions interpolated values.
MathLerp(a, b, t) ==
    IF IsNumber(a) /\ IsNumber(b)
    THEN Return(Number(MathLerpNumber(a.values[1], b.values[1], t)))
    ELSE IF IsRenderable(a) /\ IsRenderable(b)
    THEN LET Type == IF dimensions(a) > dimensions(b) THEN a.type ELSE b.type
             values == [i \in 1 .. dimensions(a) |->
                           MathLerpNumber(ValueOrDefault(a, i - 1),
                                          ValueOrDefault(b, i - 1), t)]
         IN  Return(Construct(Type, values))
    ELSE Throw("Invalid arguments for Math.lerp")

\* Math.inverseLerp, number path: (v - a) / (b - a)
MathInverseLerpNumber(a, b, v) == NumDiv(NumSub(v, a), NumSub(b, a))

\* Math.max(a.dimensions, b.dimensions, v.dimensions)
MaxDimension(a, b, v) ==
    LET m == IF dimensions(a) > dimensions(b) THEN dimensions(a) ELSE dimensions(b)
    IN  IF dimensions(v) > m THEN dimensions(v) ELSE m

\* A switch whose cases end in break: the channel of maxDimension alone.
MathInverseLerpNoFallThrough(a, b, v) ==
    IF IsNumber(a) /\ IsNumber(b) /\ IsNumber(v)
    THEN Return(Number(MathInverseLerpNumber(a.values[1], b.values[1], v.values[1])))
    ELSE IF IsRenderable(a) /\ IsRenderable(b) /\ IsRenderable(v)
    THEN LET D == MaxDimension(a, b, v)
             sum == CASE D = 3 -> MathInverseLerpNumber(blue(a), blue(b), blue(v))
                      [] D = 2 -> MathInverseLerpNumber(green(a), green(b), green(v))
                      [] D = 1 -> MathInverseLerpNumber(red(a), red(b), red(v))
         IN  Return(Number(NumDiv(NumAdd(Int2Num(0), sum), Int2Num(D))))
    ELSE Throw("Invalid arguments for Math.inverseLerp")

\* Math.inverseLerp: switch (maxDimension) falls through from the case of
\* maxDimension down to case 1, adding the channels blue, green, red, read
\* through the getters; case 4 (alpha) needs a dimension no class has.
MathInverseLerp(a, b, v) ==
    IF IsNumber(a) /\ IsNumber(b) /\ IsNumber(v)
    THEN Return(Number(MathInverseLerpNumber(a.values[1], b.values[1], v.values[1])))
    ELSE IF IsRenderable(a) /\ IsRenderable(b) /\ IsRenderable(v)
    THEN LET D == MaxDimension(a, b, v)
             s3 == IF D >= 3
                   THEN NumAdd(Int2Num(0), MathInverseLerpNumber(blue(a), blue(b), blue(v)))
                   ELSE Int2Num(0)
             s2 == IF D >= 2
                   THEN NumAdd(s3, MathInverseLerpNumber(green(a), green(b), green(v)))
                   ELSE s3
             s1 == NumAdd(s2, MathInverseLerpNumber(red(a), red(b), red(v)))
         IN  Return(Number(NumDiv(s1, Int2Num(D))))
    ELSE Throw("Invalid arguments for Math.inverseLerp")

\* Math.clamp: the result is built with the constructor of the wider of v
\* and min from an array of v.dimensions clamped values.  Each value is a
\* recursive call on x.values[i] ?? default, min.values[i] ?? default and
\* max.values[i]: past the end of max.values the third argument is
\* undefined, which is neither a number nor an object, and the call throws.
MathClamp(v, min, max) ==
    IF IsNumber(v) /\ IsNumber(min) /\ IsNumber(max)
    THEN Return(Number(MathClampNumber(v.values[1], min.values[1], max.values[1])))
    ELSE IF IsRenderable(v) /\ IsRenderable(min) /\ IsRenderable(max)
    THEN LET Type == IF dimensions(v) > dimensions(min) THEN v.type ELSE min.type
             values == [i \in 1 .. dimensions(v) |->
                           MathClampNumber(ValueOrDefault(v, i - 1),
                                           ValueOrDefault(min, i - 1),
                                           ValueAt(max, i - 1))]
         IN  IF \E i \in 1 .. dimensions(v) : ValueAt(max, i - 1).k = "undefined"
             THEN Throw("Invalid arguments for Math.clamp")
             ELSE Return(Construct(Type, values))
    ELSE Throw("Invalid arguments for Math.clamp")

\* Math.remap: declared and documented on the Math interface, and assigned
\* nowhere: Math.remap is undefined and calling it throws a TypeError.
MathRemap(iMin, iMax, oMin, oMax, v) == Throw("Math.remap is not a function")

(***************************************************************************)
(* Logger: an array of lines.  log/warn/error join the arguments with a    *)
(* blank and push the line, with its level prefix; toString joins the      *)
(* lines with a newline.                                                   *)
(***************************************************************************)
RECURSIVE Join(_, _)
Join(parts, sep) ==
    IF Len(parts) = 0 THEN ""
    ELSE IF Len(parts) = 1 THEN parts[1]
    ELSE parts[1] \o sep \o Join(Tail(parts), sep)

\* A logger that outlives the pass: the lines of the pass before stay.
StaleLogger == logs

\* new Logger(): this.logs = new Array<string>()
NewLogger == <<>>

LoggerLog(l, message) == Append(l, Join(message, " "))

LoggerWarn(l, message) == Append(l, "WARNING: " \o Join(message, " "))

LoggerError(l, message) == Append(l, "ERROR: " \o Join(message, " "))

LoggerToString(l) == Join(l, "\n")

(***************************************************************************)
(* The canvas and its 2d context.                                          *)
(***************************************************************************)
\* const renderSize = 512, scaled down to the model's raster.
renderSize == MaxRenderSize

Pixels == (0 .. renderSize - 1) \X (0 .. renderSize - 1)

\* A colour of the image; a cleared pixel is transparent.
Color(r, g, b) == [form |-> "color", r |-> r, g |-> g, b |-> b]

Transparent == [form |-> "transparent", r |-> Int2Num(0), g |-> Int2Num(0), b |-> Int2Num(0)]

Black == Color(Int2Num(0), Int2Num(0), Int2Num(0))

\* The string "#000000" of the per-pixel catch.
FallbackBlack == [form |-> "hex", r |-> Int2Num(0), g |-> Int2Num(0), b |-> Int2Num(0)]

\* Whether the context parses the string as a colour: `rgb(r, g, b)` needs
\* three numbers, and NaN is none.
IsCssColor(style) ==
    \/ style.form = "hex"
    \/ style.form = "rgb" /\ IsFinite(style.r) /\ IsFinite(style.g) /\ IsFinite(style.b)

\* context.fillStyle = style: a string that is no colour is ignored and the
\* context keeps the fill style it had.
SetFillStyle(current, style) ==
    IF IsCssColor(style) THEN Color(style.r, style.g, style.b) ELSE current

\* context.fillRect(px, py, 1, 1)
FillRect(cv, style, px, py) == [cv EXCEPT ![<<px, py>>] = style]

\* context.clearRect(0, 0, renderSize, renderSize)
ClearRect(cv) == [p \in Pixels |-> Transparent]

(***************************************************************************)
(* The user source.  What matters of a source text is whether it parses    *)
(* and what an invocation of the function built from it does:              *)
(*   syntaxError     the text does not parse;                              *)
(*   referenceError  it parses, and its top-level statements use a name    *)
(*                   that is not declared;                                 *)
(*   topLevelThrow   it parses, and its top-level statements throw;        *)
(*   shader          it parses, and main() returns a value or throws,      *)
(*                   pixel by pixel.                                       *)
(***************************************************************************)
Sources == {"syntaxError", "referenceError", "topLevelThrow", "shader"}

\* A constructor that would run the text once while building the function:
\* every failure of the top-level statements fails the construction.
NewFunctionRunsBody(src) ==
    IF src \in {"syntaxError", "referenceError", "topLevelThrow"}
    THEN [ok |-> FALSE, fn |-> "none", err |-> [message |-> "Unexpected token"]]
    ELSE [ok |-> TRUE, fn |-> src, err |-> [message |-> ""]]

\* new Function("texCoord", ..., transpile(code + "\nreturn main();")):
\* the text is parsed, not run.  A text that does not parse throws a
\* SyntaxError, which carries a message.
NewFunction(src) ==
    IF src = "syntaxError"
    THEN [ok |-> FALSE, fn |-> "none", err |-> [message |-> "Unexpected token"]]
    ELSE [ok |-> TRUE, fn |-> src, err |-> [message |-> ""]]

\* The values main() returns in the model: Scalar.half (mid-gray) and a
\* value whose channels are NaN.
ShaderValues == {Scalar(Fin(1, 2)), Scalar(NaN)}

\* renderFunction(texCoord, Scalar, Vector2, Vector3): the whole source
\* text is the function's body, so its top-level statements run at every
\* invocation.  "default" is the function renderFunction is initialised
\* with, whose render() gives black.
Invoke(fn, texCoord) ==
    CASE fn = "default" -> {Return(Scalar(Int2Num(0)))}
      [] fn = "referenceError" -> {Throw("x is not defined")}
      [] fn = "topLevelThrow" -> {Throw("thrown by the source")}
      [] fn = "shader" -> {Throw("thrown by main")} \cup {Return(v) : v \in ShaderValues}

\* A catch that logs the headline alone.
CompileErrorLinesNoMessage(l, err) ==
    LoggerError(l, <<"Shader compilation failed">>)

\* The lines the catch of the compile step logs.
CompileErrorLines(l, err) ==
    LET l1 == LoggerError(l, <<"Shader compilation failed">>)
    IN  IF "message" \in DOMAIN err THEN LoggerError(l1, <<err.message>>)
        ELSE l1

\* The empty catch a per-pixel handler could have: the fill style is not set.
PixelStyleEmptyCatch(o) ==
    IF o.ok THEN render(o.val) ELSE render(Scalar(NaN))

\* try { fillStyle = renderFunction(...).render() } catch { fillStyle = "#000000" }
PixelStyle(o) ==
    IF o.ok THEN render(o.val) ELSE FallbackBlack

\* The pixel whose writes are recorded over the passes: the first of the
\* loop, present at every renderSize.
WatchPixel == <<0, 0>>

\* new Vector2(x / renderSize, y / renderSize)
TexCoord(px, py) == Vector2(Fin(px, renderSize), Fin(py, renderSize))

\* App.updateOutput: the state is set when the text differs.
updateOutput(current, value) == IF current # value THEN value ELSE current

NoCall == [op |-> "none", a |-> NoValue, b |-> NoValue, c |-> NoValue, r |-> Throw("")]

Line(level, text) == [level |-> level, text |-> text]

Init ==
    /\ pc = "Idle"
    /\ x = 0
    /\ y = 0
    /\ canvas = [p \in Pixels |-> Transparent]
    /\ fillStyle = Black
    /\ logs = <<>>
    /\ output = ""
    /\ code = "shader"
    /\ program = "none"
    /\ pass = 0
    /\ path = "none"
    /\ trace = <<>>
    /\ calls = [p \in Pixels |-> <<>>]
    /\ fills = [p \in Pixels |-> 0]
    /\ logged = <<>>
    /\ lastOutcome = "none"
    /\ writes = <<>>
    /\ alg = NoCall

(***************************************************************************)
(* The effect of Canvas, from its start to the return or to the loop.      *)
(***************************************************************************)
\* The effect runs: a pass starts with its own history.
StartPass ==
    /\ pc = "Idle"
    /\ pass < MaxPasses
    /\ pass' = pass + 1
    /\ calls' = [p \in Pixels |-> <<>>]
    /\ fills' = [p \in Pixels |-> 0]
    /\ lastOutcome' = "none"

\* canvasRef.current is null.
PassNoCanvas ==
    /\ StartPass
    /\ code' \in Sources
    /\ logs' = LoggerError(NewLogger, <<"No canvas">>)
    /\ logged' = <<Line("error", "No canvas")>>
    /\ trace' = <<"log">>
    /\ path' = "noCanvas"
    /\ program' = "none"
    /\ pc' = "Finally"
    /\ UNCHANGED <<x, y, canvas, fillStyle, output, writes, alg>>

\* canvas.getContext("2d") is null.
PassNoContext ==
    /\ StartPass
    /\ code' \in Sources
    /\ logs' = LoggerError(NewLogger, <<"No canvas context">>)
    /\ logged' = <<Line("error", "No canvas context")>>
    /\ trace' = <<"log">>
    /\ path' = "noContext"
    /\ program' = "none"
    /\ pc' = "Finally"
    /\ UNCHANGED <<x, y, canvas, fillStyle, output, writes, alg>>

\* A compile step whose return leaves the effect without the flush (a flush
\* placed after the loop instead of in a finally).
PassCompileFailedNoFlush ==
    /\ StartPass
    /\ \E src \in Sources :
        LET f == NewFunction(src)
        IN  /\ ~f.ok
            /\ code' = src
            /\ logs' = CompileErrorLines(
                          LoggerLog(NewLogger, <<"Compiling shader...">>), f.err)
            /\ logged' = <<Line("info", "Compiling shader..."),
                           Line("error", "Shader compilation failed"),
                           Line("error", f.err.message)>>
    /\ trace' = <<"log", "compile", "log", "log">>
    /\ path' = "compileFailed"
    /\ program' = "none"
    /\ pc' = "Idle"
    /\ UNCHANGED <<x, y, canvas, fillStyle, output, writes, alg>>

\* A compile step whose catch does not return: it goes on to the raster.
PassCompileFailedNoReturn ==
    /\ StartPass
    /\ \E src \in Sources :
        LET f == NewFunction(src)
        IN  /\ ~f.ok
            /\ code' = src
            /\ logs' = CompileErrorLines(
                          LoggerLog(NewLogger, <<"Compiling shader...">>), f.err)
            /\ logged' = <<Line("info", "Compiling shader..."),
                           Line("error", "Shader compilation failed"),
                           Line("error", f.err.message)>>
            /\ program' = "default"
    /\ trace' = <<"log", "compile", "log", "log", "clear">>
    /\ path' = "compileFailed"
    /\ canvas' = ClearRect(canvas)
    /\ x' = 0
    /\ y' = 0
    /\ pc' = "Rendering"
    /\ UNCHANGED <<fillStyle, output, writes, alg>>

\* new Function throws: the catch logs the failure and returns.
PassCompileFailed ==
    /\ StartPass
    /\ \E src \in Sources :
        LET f == NewFunction(src)
        IN  /\ ~f.ok
            /\ code' = src
            /\ logs' = CompileErrorLines(
                          LoggerLog(NewLogger, <<"Compiling shader...">>), f.err)
            /\ logged' = <<Line("info", "Compiling shader..."),
                           Line("error", "Shader compilation failed"),
                           Line("error", f.err.message)>>
    /\ trace' = <<"log", "compile", "log", "log">>
    /\ path' = "compileFailed"
    /\ program' = "none"
    /\ pc' = "Finally"
    /\ UNCHANGED <<x, y, canvas, fillStyle, output, writes, alg>>

\* new Function returns: the image is cleared and the loop begins.
PassCompiled ==
    /\ StartPass
    /\ \E src \in Sources :
        LET f == NewFunction(src)
        IN  /\ f.ok
            /\ code' = src
            /\ program' = f.fn
    /\ logs' = LoggerLog(LoggerLog(NewLogger, <<"Compiling shader...">>),
                         <<"Shader compiled successfully">>)
    /\ logged' = <<Line("info", "Compiling shader..."),
                   Line("info", "Shader compiled successfully")>>
    /\ trace' = <<"log", "compile", "log", "clear">>
    /\ path' = "compiled"
    /\ canvas' = ClearRect(canvas)
    /\ x' = 0
    /\ y' = 0
    /\ pc' = "Rendering"
    /\ UNCHANGED <<fillStyle, output, writes, alg>>

(***************************************************************************)
(* One iteration of the pixel loop, x outer and y inner.                   *)
(***************************************************************************)
\* An iteration that builds the callable again before it invokes it.
PixelRecompiles ==
    /\ pc = "Rendering"
    /\ x < renderSize
    /\ \E o \in Invoke(program, TexCoord(x, y)) :
        LET fs == SetFillStyle(fillStyle, PixelStyle(o))
        IN  /\ fillStyle' = fs
            /\ canvas' = FillRect(canvas, fs, x, y)
            /\ lastOutcome' = IF o.ok THEN "returned" ELSE "threw"
            /\ writes' = IF <<x, y>> = WatchPixel
                         THEN Append(writes, [style |-> PixelStyle(o), color |-> fs])
                         ELSE writes
    /\ calls' = [calls EXCEPT ![<<x, y>>] = Append(@, TexCoord(x, y))]
    /\ fills' = [fills EXCEPT ![<<x, y>>] = @ + 1]
    /\ trace' = trace \o <<"compile", "eval", "fill">>
    /\ IF y + 1 < renderSize
       THEN x' = x /\ y' = y + 1
       ELSE x' = x + 1 /\ y' = 0
    /\ UNCHANGED <<pc, logs, output, code, program, pass, path, logged, alg>>

\* try { context.fillStyle = renderFunction(texCoord, ...).render() }
\* catch { context.fillStyle = "#000000" }; context.fillRect(x, y, 1, 1)
Pixel ==
    /\ pc = "Rendering"
    /\ x < renderSize
    /\ \E o \in Invoke(program, TexCoord(x, y)) :
        LET fs == SetFillStyle(fillStyle, PixelStyle(o))
        IN  /\ fillStyle' = fs
            /\ canvas' = FillRect(canvas, fs, x, y)
            /\ lastOutcome' = IF o.ok THEN "returned" ELSE "threw"
            /\ writes' = IF <<x, y>> = WatchPixel
                         THEN Append(writes, [style |-> PixelStyle(o), color |-> fs])
                         ELSE writes
    /\ calls' = [calls EXCEPT ![<<x, y>>] = Append(@, TexCoord(x, y))]
    /\ fills' = [fills EXCEPT ![<<x, y>>] = @ + 1]
    /\ trace' = trace \o <<"eval", "fill">>
    /\ IF y + 1 < renderSize
       THEN x' = x /\ y' = y + 1
       ELSE x' = x + 1 /\ y' = 0
    /\ UNCHANGED <<pc, logs, output, code, program, pass, path, logged, alg>>

\* A summary that a throwing last pixel skips (the loop's try around the
\* whole loop instead of around one pixel).
SummaryUnlessThrown ==
    /\ pc = "Rendering"
    /\ x >= renderSize
    /\ LET text == "Rendered " \o ToString(renderSize) \o "x"
                       \o ToString(renderSize) \o " pixels"
       IN  IF lastOutcome = "threw"
           THEN /\ logs' = logs
                /\ logged' = logged
                /\ trace' = trace
           ELSE /\ logs' = LoggerLog(logs, <<text>>)
                /\ logged' = Append(logged, Line("info", text))
                /\ trace' = Append(trace, "summary")
    /\ pc' = "Finally"
    /\ UNCHANGED <<x, y, canvas, fillStyle, output, code, program, pass, path,
                   calls, fills, lastOutcome, writes, alg>>

\* After the loop: log.log(`Rendered ${width}x${height} pixels`), the
\* canvas element having width = height = renderSize.
Summary ==
    /\ pc = "Rendering"
    /\ x >= renderSize
    /\ LET text == "Rendered " \o ToString(renderSize) \o "x"
                       \o ToString(renderSize) \o " pixels"
       IN  /\ logs' = LoggerLog(logs, <<text>>)
           /\ logged' = Append(logged, Line("info", text))
    /\ trace' = Append(trace, "summary")
    /\ pc' = "Finally"
    /\ UNCHANGED <<x, y, canvas, fillStyle, output, code, program, pass, path,
                   calls, fills, lastOutcome, writes, alg>>

\* finally { props.setOutput(log.toString()) }, and the effect returns.
Finally ==
    /\ pc = "Finally"
    /\ output' = updateOutput(output, LoggerToString(logs))
    /\ trace' = Append(trace, "flush")
    /\ program' = "none"
    /\ pc' = "Idle"
    /\ UNCHANGED <<x, y, canvas, fillStyle, logs, code, pass, path, calls, fills,
                   logged, lastOutcome, writes, alg>>

Next ==
    \/ PassNoCanvas
    \/ PassNoContext
    \/ PassCompileFailed
    \/ PassCompiled
    \/ Pixel
    \/ Summary
    \/ Finally

Spec == Init /\ [][Next]_vars

\* The effect is one synchronous function: once it has started it runs its
\* loop, its summary and its finally to the end (a shader that returns).
FairSpec == Spec /\ WF_vars(Pixel) /\ WF_vars(Summary) /\ WF_vars(Finally)

(***************************************************************************)
(* The colour algebra on its own: one call of a binary method, or of the   *)
(* four channel getters, on operands with small integer components.        *)
(***************************************************************************)
Comp == -1 .. MaxComp

Comp3 == 0 .. MaxComp3

Operands ==
    {Scalar(Int2Num(c)) : c \in Comp}
        \cup {Vector2(Int2Num(c[1]), Int2Num(c[2])) : c \in Comp \X Comp}
        \cup {Vector3(Int2Num(c[1]), Int2Num(c[2]), Int2Num(c[3])) :
                c \in Comp3 \X Comp3 \X Comp3}

ApplyMethod(op) ==
    /\ alg.op = "none"
    /\ \E a \in Operands, b \in Operands :
        alg' = [op |-> op, a |-> a, b |-> b, c |-> NoValue, r |-> Call(op, a, b)]
    /\ UNCHANGED rasterVars

Multiply == ApplyMethod("multiply")

Add == ApplyMethod("add")

Subtract == ApplyMethod("subtract")

Divide == ApplyMethod("divide")

\* The four channels of a value, read through the getters.
Channels ==
    /\ alg.op = "none"
    /\ \E a \in Operands :
        alg' = [op |-> "channels", a |-> a, b |-> NoValue, c |-> NoValue,
                r |-> Return([type |-> "channels",
                              values |-> <<red(a), green(a), blue(a), alpha(a)>>])]
    /\ UNCHANGED rasterVars

\* The operands of the blend operations: plain numbers and Renderables
\* with components 0 .. MaxComp3.
BlendNumbers == {Number(Int2Num(c)) : c \in Comp3}

BlendRenderables ==
    {Scalar(Int2Num(c)) : c \in Comp3}
        \cup {Vector2(Int2Num(c[1]), Int2Num(c[2])) : c \in Comp3 \X Comp3}
        \cup {Vector3(Int2Num(c[1]), Int2Num(c[2]), Int2Num(c[3])) :
                c \in Comp3 \X Comp3 \X Comp3}

BlendOperands == BlendNumbers \cup BlendRenderables

\* The interpolation parameters tried: below, at, inside and above [0, 1].
TValues == {Int2Num(-1), Int2Num(0), Fin(1, 2), Int2Num(1), Int2Num(2)}

\* Math.lerp(a, b, t)
Lerp ==
    /\ alg.op = "none"
    /\ \E a \in BlendOperands, b \in BlendOperands, t \in TValues :
        alg' = [op |-> "lerp", a |-> a, b |-> b, c |-> Number(t),
                r |-> MathLerp(a, b, t)]
    /\ UNCHANGED rasterVars

\* Math.inverseLerp(a, b, v)
InverseLerp ==
    /\ alg.op = "none"
    /\ \E a \in BlendOperands, b \in BlendOperands, v \in BlendOperands :
        alg' = [op |-> "inverseLerp", a |-> a, b |-> b, c |-> v,
                r |-> MathInverseLerp(a, b, v)]
    /\ UNCHANGED rasterVars

\* Math.clamp(v, min, max)
Clamp ==
    /\ alg.op = "none"
    /\ \E v \in BlendOperands, min \in BlendOperands, max \in BlendOperands :
        alg' = [op |-> "clamp", a |-> v, b |-> min, c |-> max,
                r |-> MathClamp(v, min, max)]
    /\ UNCHANGED rasterVars

\* Math.remap(iMin, iMax, oMin, oMax, v) on plain numbers; the five
\* arguments are kept together in alg.a.
Remap ==
    /\ alg.op = "none"
    /\ \E iMin \in Comp3, iMax \in Comp3, oMin \in Comp3, oMax \in Comp3, v \in Comp :
        alg' = [op |-> "remap",
                a |-> [type |-> "arguments",
                       values |-> <<Int2Num(iMin), Int2Num(iMax), Int2Num(oMin),
                                    Int2Num(oMax), Int2Num(v)>>],
                b |-> NoValue, c |-> NoValue,
                r |-> MathRemap(Number(Int2Num(iMin)), Number(Int2Num(iMax)),
                                Number(Int2Num(oMin)), Number(Int2Num(oMax)),
                                Number(Int2Num(v)))]
    /\ UNCHANGED rasterVars

AlgNext ==
    \/ Multiply
    \/ Add
    \/ Subtract
    \/ Divide
    \/ Channels
    \/ Lerp
    \/ InverseLerp
    \/ Clamp
    \/ Remap

AlgSpec == Init /\ [][AlgNext]_vars

(***************************************************************************)
(* Properties of the render pass (specification Spec).                     *)
(***************************************************************************)
Count(seq, e) == Cardinality({i \in DOMAIN seq : seq[i] = e})

\* The pixels the loop is done with, in its order (x outer, y inner).
Processed(p) == pc # "Rendering" \/ p[1] < x \/ (p[1] = x /\ p[2] < y)

\* The pixel of the latest iteration.
PrevPixel == IF y > 0 THEN <<x, y - 1>> ELSE <<x - 1, renderSize - 1>>

SummaryLine ==
    "Rendered " \o ToString(renderSize) \o "x" \o ToString(renderSize) \o " pixels"

Gray == Color(Fin(255, 2), Fin(255, 2), Fin(255, 2))

\* C1: in a pass whose construction of the callable fails, the program is
\* never invoked and the image is neither cleared nor filled: no step of
\* that pass changes the image.
C1_NoRasterOnCompileFailure ==
    /\ [](path = "compileFailed" =>
            /\ Count(trace, "eval") = 0
            /\ Count(trace, "clear") = 0
            /\ Count(trace, "fill") = 0
            /\ \A p \in Pixels : calls[p] = <<>> /\ fills[p] = 0)
    /\ [][path' = "compileFailed" => canvas' = canvas]_vars

\* A failed compile that ended with the raster of an earlier pass in place.
C1_Witness ==
    /\ path = "compileFailed"
    /\ pc = "Idle"
    /\ \E p \in Pixels : canvas[p] # Transparent

\* C2: in a pass that compiled, every pixel the loop is done with was
\* evaluated exactly once, with texCoord (x/renderSize, y/renderSize), and
\* written exactly once; the pixels ahead are untouched; a pixel whose
\* evaluation threw is black; and the loop ends only with all pixels done.
C2_EveryPixelOnce ==
    path = "compiled" =>
        /\ \A p \in Pixels :
            IF Processed(p)
            THEN /\ calls[p] = <<Vector2(Fin(p[1], renderSize), Fin(p[2], renderSize))>>
                 /\ fills[p] = 1
                 /\ canvas[p] # Transparent
            ELSE /\ calls[p] = <<>>
                 /\ fills[p] = 0
                 /\ canvas[p] = Transparent
        /\ (lastOutcome = "threw" => canvas[PrevPixel] = Black)
        /\ (pc # "Rendering" => x = renderSize /\ y = 0)
        /\ (pc = "Rendering" => x <= renderSize /\ y < renderSize)

\* A finished frame whose last pixel threw and that holds a gray pixel.
C2_Witness ==
    /\ path = "compiled"
    /\ pc = "Idle"
    /\ lastOutcome = "threw"
    /\ \E p \in Pixels : canvas[p] = Gray

\* C3: a pass flushes once, as its last step, whatever branch it took: an
\* ended pass has exactly one flush, the last entry of its trace, and the
\* output is the text of its log; a running pass has not flushed and can
\* always go on.
C3_FlushOnceAndLast ==
    /\ (pc = "Idle" /\ pass > 0 =>
            /\ path \in {"noCanvas", "noContext", "compileFailed", "compiled"}
            /\ Count(trace, "flush") = 1
            /\ trace[Len(trace)] = "flush"
            /\ output = LoggerToString(logs))
    /\ (pc # "Idle" =>
            /\ Count(trace, "flush") = 0
            /\ ENABLED (Pixel \/ Summary \/ Finally))

\* The pass without a drawing context has ended, flushed.
C3_Witness ==
    /\ pc = "Idle"
    /\ path = "noContext"
    /\ trace = <<"log", "flush">>
    /\ output = "ERROR: No canvas context"

\* C4 as stated: after a failed compile the log holds error lines only.
C4_OnlyErrorLines ==
    pc = "Idle" /\ path = "compileFailed" =>
        \A i \in DOMAIN logs :
            logs[i] \in {"ERROR: Shader compilation failed", "ERROR: Unexpected token"}

\* C4, amended: after a failed compile the flushed log is the line
\* "Compiling shader..." followed by the two error lines, and nothing else.
C4_CompileFailureLog ==
    pc = "Idle" /\ path = "compileFailed" =>
        /\ logs = <<"Compiling shader...",
                    "ERROR: Shader compilation failed",
                    "ERROR: Unexpected token">>
        /\ output = "Compiling shader...\nERROR: Shader compilation failed\nERROR: Unexpected token"

C4_Witness ==
    /\ pc = "Idle"
    /\ path = "compileFailed"
    /\ Len(logs) = 3
    /\ logs[1] = "Compiling shader..."

\* C5 as stated: a source with a reference error or a top-level throw makes
\* the pass a compile failure without any pixel evaluation.
C5_RuntimeFailureIsCompileFailure ==
    code \in {"referenceError", "topLevelThrow"} /\ path \in {"compileFailed", "compiled"} =>
        path = "compileFailed" /\ Count(trace, "eval") = 0

\* C5, amended: only a source that does not parse is a compile failure.  A
\* source with a reference error or a top-level throw compiles; every
\* invocation throws, every pixel done is black, and the pass ends with
\* the success line and the summary line.
C5_OnlyParseFailureIsCompileFailure ==
    /\ (path = "compileFailed" => code = "syntaxError")
    /\ (code \in {"referenceError", "topLevelThrow"} /\ path \in {"compileFailed", "compiled"} =>
            /\ path = "compiled"
            /\ \A p \in Pixels : Processed(p) => canvas[p] = Black /\ Len(calls[p]) = 1
            /\ lastOutcome # "returned"
            /\ (pc = "Idle" =>
                    output = "Compiling shader...\nShader compiled successfully\n"
                                \o SummaryLine))

C5_Witness ==
    /\ code = "referenceError"
    /\ path = "compiled"
    /\ pc = "Idle"
    /\ Count(trace, "eval") = renderSize * renderSize
    /\ \A p \in Pixels : canvas[p] = Black

\* C6: in a pass that compiled, the summary line is logged exactly once,
\* after the last pixel write and before the flush, whatever the pixels'
\* evaluations did; during the loop it is not there yet.
C6_SummaryOnceAfterLastPixel ==
    path = "compiled" =>
        /\ (pc = "Rendering" =>
                Count(trace, "summary") = 0 /\ Count(logs, SummaryLine) = 0)
        /\ (pc \in {"Finally", "Idle"} =>
                /\ Count(trace, "summary") = 1
                /\ Count(logs, SummaryLine) = 1
                /\ logs[Len(logs)] = SummaryLine
                /\ Count(trace, "fill") = renderSize * renderSize
                /\ \A i \in DOMAIN trace, j \in DOMAIN trace :
                    /\ (trace[i] \in {"eval", "fill"} /\ trace[j] = "summary" => i < j)
                    /\ (trace[i] = "summary" /\ trace[j] = "flush" => i < j))

\* A source that throws at every invocation: all black, summary reported.
C6_Witness ==
    /\ code = "topLevelThrow"
    /\ path = "compiled"
    /\ pc = "Idle"
    /\ \A p \in Pixels : canvas[p] = Black
    /\ output = "Compiling shader...\nShader compiled successfully\n" \o SummaryLine

LevelPrefix(level) ==
    CASE level = "info" -> ""
      [] level = "warn" -> "WARNING: "
      [] level = "error" -> "ERROR: "

\* C7: the text an ended pass delivered is the lines logged during that
\* pass, in their order, each with its level prefix, joined by newlines:
\* nothing of an earlier pass is in it.
C7_OutputIsThisPassLog ==
    pc = "Idle" /\ pass > 0 =>
        /\ \A i \in DOMAIN logged : logged[i].level \in {"info", "warn", "error"}
        /\ output = Join([i \in DOMAIN logged |->
                            LevelPrefix(logged[i].level) \o logged[i].text], "\n")

\* A later pass without canvas, after a pass that drew and logged.
C7_Witness ==
    /\ pass >= 2
    /\ pc = "Idle"
    /\ path = "noCanvas"
    /\ \E p \in Pixels : canvas[p] # Transparent
    /\ output = "ERROR: No canvas"

\* C15: the effect is in Rendering only between a successful compile and
\* the flush of the same pass; a pixel is evaluated only after the compile
\* of its pass succeeded; a pass compiles at most once and the loop keeps
\* the program it was given; and every pass that started, aborted or not,
\* comes back to Idle.
C15_RenderingBetweenCompileAndEnd ==
    /\ [](/\ pc = "Rendering" =>
                /\ path = "compiled"
                /\ program # "none"
                /\ Count(trace, "compile") = 1
                /\ Count(trace, "flush") = 0
          /\ \A i \in DOMAIN trace :
                trace[i] = "eval" =>
                    /\ path = "compiled"
                    /\ \E j \in 1 .. i - 1 : trace[j] = "compile"
          /\ Count(trace, "compile") <= 1
          /\ pc = "Idle" => program = "none")
    /\ [][pc = "Rendering" /\ pc' = "Rendering" => program' = program]_vars
    /\ (pc # "Idle" ~> pc = "Idle")

\* The last pass compiled once, evaluated every pixel and is back in Idle.
C15_Witness ==
    /\ pc = "Idle"
    /\ pass = MaxPasses
    /\ code = "shader"
    /\ path = "compiled"
    /\ Count(trace, "compile") = 1
    /\ Count(trace, "eval") = renderSize * renderSize
    /\ trace[Len(trace)] = "flush"

\* C16 as stated: the colour written to a pixel is determined by the
\* outcome of that pixel's own evaluation alone: two passes that assign the
\* same style at the pixel write the same colour there, whatever the earlier
\* pixels were, also for a style the context does not accept.
C16_ColorFromOwnOutcomeOnly ==
    \A i \in DOMAIN writes, j \in DOMAIN writes :
        writes[i].style = writes[j].style => writes[i].color = writes[j].color

(***************************************************************************)
(* Properties of the colour algebra (specification AlgSpec).               *)
(***************************************************************************)
ArithmeticOps == {"multiply", "add", "subtract", "divide"}

\* Component i of an operand, a Scalar standing for each component.
ComponentAt(v, i) == IF v.type = "Scalar" THEN v.values[1] ELSE v.values[i]

Max(m, n) == IF m > n THEN m ELSE n

\* C8 as stated: every component of a quotient whose divisor component is
\* 0 is exactly 0.
C8_DivideByZeroIsZero ==
    alg.op = "divide" /\ alg.r.ok =>
        \A i \in DOMAIN alg.r.val.values :
            ComponentAt(alg.b, i) = Int2Num(0) => alg.r.val.values[i] = Int2Num(0)

\* C9 as stated: green and blue of a Scalar and blue of a Vector2 are 0,
\* alpha is 1, and a channel within the component count is the component.
C9_ChannelsBeyondCountAreDefault ==
    alg.op = "channels" =>
        LET a == alg.a
            ch == alg.r.val.values
        IN  /\ ch[1] = a.values[1]
            /\ ch[2] = IF dimensions(a) >= 2 THEN a.values[2] ELSE Int2Num(0)
            /\ ch[3] = IF dimensions(a) >= 3 THEN a.values[3] ELSE Int2Num(0)
            /\ ch[4] = Int2Num(1)

\* C9, amended: green and blue of a Scalar are its single component
\* (grayscale); blue of a Vector2 is 0; alpha is 1 for every variant; a
\* channel within the component count is the stored component.
C9_ChannelsOfEachVariant ==
    alg.op = "channels" =>
        LET a == alg.a
            ch == alg.r.val.values
        IN  /\ ch[1] = a.values[1]
            /\ ch[2] = IF dimensions(a) >= 2 THEN a.values[2] ELSE a.values[1]
            /\ ch[3] = CASE dimensions(a) = 3 -> a.values[3]
                         [] dimensions(a) = 2 -> Int2Num(0)
                         [] dimensions(a) = 1 -> a.values[1]
            /\ ch[4] = Int2Num(1)

C9_Witness ==
    /\ alg.op = "channels"
    /\ alg.a = Scalar(Int2Num(2))
    /\ alg.r.val.values = <<Int2Num(2), Int2Num(2), Int2Num(2), Int2Num(1)>>

\* The operator a method applies to a pair of components.
Expected(op, m, n) ==
    CASE op = "multiply" -> NumMul(m, n)
      [] op = "add" -> NumAdd(m, n)
      [] op = "subtract" -> NumSub(m, n)
      [] op = "divide" -> NumDiv(m, n)

\* C10: a method returns a value exactly when the dimensions are equal or
\* one operand is a Scalar; the value then has the class of the wider
\* operand and component i combines component i of both operands, the
\* Scalar standing for each component (a component divided by 0 apart,
\* which C8 is about); any other pairing throws and returns nothing.
C10_BroadcastOrMismatch ==
    alg.op \in ArithmeticOps =>
        LET a == alg.a
            b == alg.b
            r == alg.r
            wider == IF dimensions(a) >= dimensions(b) THEN a ELSE b
        IN  /\ r.ok <=> (dimensions(a) = dimensions(b)
                            \/ dimensions(a) = 1 \/ dimensions(b) = 1)
            /\ r.ok =>
                /\ r.val.type = wider.type
                /\ Len(r.val.values) = Max(dimensions(a), dimensions(b))
                /\ \A i \in DOMAIN r.val.values :
                    \/ alg.op = "divide" /\ ComponentAt(b, i) = Int2Num(0)
                    \/ r.val.values[i] =
                          Expected(alg.op, ComponentAt(a, i), ComponentAt(b, i))
            /\ ~r.ok => r.val = NoValue /\ r.err # ""

\* A Scalar minus a Vector3: the scalar spread over three components.
C10_Witness ==
    /\ alg.op = "subtract"
    /\ alg.a = Scalar(Int2Num(2))
    /\ alg.b = Vector3(Int2Num(1), Int2Num(0), Int2Num(1))
    /\ alg.r = Return(Vector3(Int2Num(1), Int2Num(2), Int2Num(1)))

(***************************************************************************)
(* Properties of the blend operations (specification AlgSpec).             *)
(***************************************************************************)
\* Both operands of the call are Renderables.
LerpOfRenderables ==
    alg.op = "lerp" /\ IsRenderable(alg.a) /\ IsRenderable(alg.b)

\* C11 as stated: lerp of two Renderables of any dimensions returns a value
\* whose dimension is the larger of the two, every component of which is
\* defined and is a_i + (b_i - a_i) * t, a component missing from the
\* narrower operand being its channel default.
C11_LerpFillsEveryComponent ==
    LerpOfRenderables =>
        /\ alg.r.ok
        /\ dimensions(alg.r.val) = Max(dimensions(alg.a), dimensions(alg.b))
        /\ \A i \in DOMAIN alg.r.val.values :
            LET ai == ValueOrDefault(alg.a, i - 1)
                bi == ValueOrDefault(alg.b, i - 1)
            IN  /\ alg.r.val.values[i].k # "undefined"
                /\ alg.r.val.values[i] =
                      NumAdd(ai, NumMul(NumSub(bi, ai), alg.c.values[1]))

\* a <= b on finite numbers.
NumLeq(a, b) == IsFinite(a) /\ IsFinite(b) /\ ~NumLess(b, a)

\* The call clamp(x, min, max) of C12: three Renderables, each bound of
\* the dimension of x or a Scalar, min <= max in every component.
ClampOfBroadcastable ==
    /\ alg.op = "clamp"
    /\ IsRenderable(alg.a) /\ IsRenderable(alg.b) /\ IsRenderable(alg.c)
    /\ dimensions(alg.b) \in {1, dimensions(alg.a)}
    /\ dimensions(alg.c) \in {1, dimensions(alg.a)}
    /\ \A i \in 1 .. dimensions(alg.a) :
        NumLeq(ComponentAt(alg.b, i), ComponentAt(alg.c, i))

\* C12 as stated: for x, min, max of equal or broadcastable dimensions every
\* component of clamp(x, min, max) lies within [min, max] for that
\* component, and the result has max(x.dimension, min.dimension) components.
C12_ClampWithinBounds ==
    ClampOfBroadcastable =>
        /\ alg.r.ok
        /\ dimensions(alg.r.val) = Max(dimensions(alg.a), dimensions(alg.b))
        /\ \A i \in DOMAIN alg.r.val.values :
            /\ NumLeq(ComponentAt(alg.b, i), alg.r.val.values[i])
            /\ NumLeq(alg.r.val.values[i], ComponentAt(alg.c, i))

\* The linear map of v from [iMin, iMax] to [oMin, oMax].
LinearRemap(iMin, iMax, oMin, oMax, v) ==
    NumAdd(oMin, NumDiv(NumMul(NumSub(v, iMin), NumSub(oMax, oMin)),
                        NumSub(iMax, iMin)))

\* C13 as stated: remap with v inside [iMin, iMax] returns the linear remap
\* of v; with v outside [iMin, iMax] it fails with a range error and returns
\* no value.
C13_RemapIsLinearInsideRange ==
    alg.op = "remap" =>
        LET iMin == alg.a.values[1]
            iMax == alg.a.values[2]
            oMin == alg.a.values[3]
            oMax == alg.a.values[4]
            v == alg.a.values[5]
        IN  NumLess(iMin, iMax) =>
                IF NumLeq(iMin, v) /\ NumLeq(v, iMax)
                THEN alg.r = Return(Number(LinearRemap(iMin, iMax, oMin, oMax, v)))
                ELSE ~alg.r.ok

ChannelOf(v, c) ==
    CASE c = 1 -> red(v)
      [] c = 2 -> green(v)
      [] c = 3 -> blue(v)
      [] OTHER -> alpha(v)

\* The sum of (v_c - a_c) / (b_c - a_c) over the channels 1 .. n.
RECURSIVE ChannelSum(_, _, _, _)
ChannelSum(a, b, v, n) ==
    IF n = 0 THEN Int2Num(0)
    ELSE NumAdd(ChannelSum(a, b, v, n - 1),
                NumDiv(NumSub(ChannelOf(v, n), ChannelOf(a, n)),
                       NumSub(ChannelOf(b, n), ChannelOf(a, n))))

\* C17: inverseLerp of three Renderables with D the largest of their
\* dimensions returns the sum of the scalar inverse-lerps over exactly the
\* channels red .. D (never alpha) divided by D.
C17_InverseLerpAveragesFirstChannels ==
    alg.op = "inverseLerp"
        /\ IsRenderable(alg.a) /\ IsRenderable(alg.b) /\ IsRenderable(alg.c) =>
        LET D == Max(Max(dimensions(alg.a), dimensions(alg.b)), dimensions(alg.c))
        IN  /\ D \in 1 .. 3
            /\ alg.r = Return(Number(NumDiv(ChannelSum(alg.a, alg.b, alg.c, D),
                                            Int2Num(D))))

\* Three channels of which two lie at the far end and one at the near end:
\* (1 + 1 + 0) / 3.
C17_Witness ==
    /\ alg.op = "inverseLerp"
    /\ alg.a = Vector3(Int2Num(0), Int2Num(0), Int2Num(0))
    /\ alg.b = Vector3(Int2Num(1), Int2Num(1), Int2Num(1))
    /\ alg.c = Vector2(Int2Num(1), Int2Num(1))
    /\ alg.r = Return(Number(Fin(2, 3)))
====
